---------------------------- MODULE Spec2Model ----------------------------
(***************************************************************************)
(* Model of the scheduled image synchronisation job                        *)
(* (src/app/api/hourly-upload/route.ts): the GET handler lists a GitHub    *)
(* folder, filters the image files, uploads each one to the image host     *)
(* through uploadImageFromUrl and reports the successful uploads.          *)
(*                                                                         *)
(* File names are sequences of one-character strings, so that the two      *)
(* regular expressions of the handler are modelled by what they match.     *)
(***************************************************************************)
EXTENDS Naturals, Sequences, FiniteSets

(***************************************************************************)
(* Bounds of the model.                                                    *)
(***************************************************************************)
\* longest folder listing of a run
MaxFiles == 3
\* longest descriptor sequence given to the filter on its own
MaxFilterInput == 2
\* longest folder listing when two runs overlap
MaxOverlapFiles == 2

(***************************************************************************)
(* Characters and file names.                                              *)
(***************************************************************************)
\* upper-case counterpart of the lower-case letters that occur in names
UpperOf ==
  [c \in {"a", "b", "d", "e", "f", "g", "i", "j", "m", "n", "p", "w", "x"} |->
     CASE c = "a" -> "A" [] c = "b" -> "B" [] c = "d" -> "D" [] c = "e" -> "E"
       [] c = "f" -> "F" [] c = "g" -> "G" [] c = "i" -> "I" [] c = "j" -> "J"
       [] c = "m" -> "M" [] c = "n" -> "N" [] c = "p" -> "P" [] c = "w" -> "W"
       [] c = "x" -> "X"]

\* a character as the /i flag compares it (the canonical form is upper case)
Canonicalize(c) == IF c \in DOMAIN UpperOf THEN UpperOf[c] ELSE c

\* the /i flag dropped: characters compare as they are
MatchChar_CaseSensitive(c, p) == c = p

\* one pattern character p against one input character c under /i
MatchChar(c, p) == Canonicalize(c) = Canonicalize(p)

\* the literal lit matches name from position pos on
MatchLit(name, pos, lit) ==
  /\ pos + Len(lit) - 1 <= Len(name)
  /\ \A k \in 1..Len(lit) : MatchChar(name[pos + k - 1], lit[k])

\* the words of the group (jpe?g|png|gif|webp)
ExtAlternatives ==
  { <<"j", "p", "g">>, <<"j", "p", "e", "g">>, <<"p", "n", "g">>,
    <<"g", "i", "f">>, <<"w", "e", "b", "p">> }

\* /\.(jpe?g|png|gif|webp)$/i.test(name)
ImageRegexTest(name) ==
  \E s \in 1..Len(name) :
    /\ name[s] = "."
    /\ \E alt \in ExtAlternatives :
         /\ MatchLit(name, s + 1, alt)
         /\ s + Len(alt) = Len(name)

\* the type test dropped from the filter predicate
IsImageFile_AnyType(file) == ImageRegexTest(file.name)

\* the predicate of files.filter
IsImageFile(file) == file.type = "file" /\ ImageRegexTest(file.name)

\* Array.prototype.filter with that predicate: keeps the order
RECURSIVE FilterImages(_)
FilterImages(files) ==
  IF files = <<>> THEN <<>>
  ELSE IF IsImageFile(Head(files))
       THEN <<Head(files)>> \o FilterImages(Tail(files))
       ELSE FilterImages(Tail(files))

\* the pattern written as /\..+$/ : it matches from the first dot on
ExtMatchStarts_Greedy(name) ==
  { s \in 1..Len(name) : name[s] = "." /\ s < Len(name) }

\* where /\.[^/.]+$/ matches in name: the dot of the match
ExtMatchStarts(name) ==
  { s \in 1..Len(name) :
      /\ name[s] = "."
      /\ s < Len(name)
      /\ \A k \in (s + 1)..Len(name) : name[k] \notin {"/", "."} }

\* the least element of a non-empty set of numbers
Least(S) == CHOOSE s \in S : \A t \in S : s <= t

\* the file name used as it is
PublicId_KeepExtension(name) == name

\* file.name.replace(/\.[^/.]+$/, ''): the leftmost match is removed
PublicId(name) ==
  IF ExtMatchStarts(name) = {} THEN name
  ELSE SubSeq(name, 1, Least(ExtMatchStarts(name)) - 1)


(***************************************************************************)
(* The folder of the source repository and what the listing returns.       *)
(***************************************************************************)
\* one entry of the listing response: {name, download_url, type}
GitHubFile(name, type) ==
  [name |-> name, type |-> type, download_url |-> <<"/">> \o name]

\* entries a folder of a run may hold
Descriptors ==
  { GitHubFile(<<"a", ".", "j", "p", "g">>, "file"),
    GitHubFile(<<"a", ".", "p", "n", "g">>, "file"),
    GitHubFile(<<"p", ".", "f", ".", "P", "N", "G">>, "file"),
    GitHubFile(<<"r", ".", "m", "d">>, "file"),
    GitHubFile(<<"d", ".", "g", "i", "f">>, "dir") }

\* every sequence over S of at most n elements
SeqsUpTo(S, n) == UNION { [1..m -> S] : m \in 0..n }

\* a folder holds no two entries of one name
Listings ==
  { l \in SeqsUpTo(Descriptors, MaxFiles) :
      \A i, j \in 1..Len(l) : l[i].name = l[j].name => i = j }

\* the body of a successful listing response: an array of entries when the
\* path is a folder, a single object when the path is a file
ArrayData(items) == [isArray |-> TRUE, items |-> items]
ObjectData == [isArray |-> FALSE, items |-> <<>>]

\* the invocations the scheduler may make
Runs == {1, 2}

\* what the calls to the outside can answer
ListErrors == {"Network Error", "Request failed with status code 403"}
FetchErrors == {"Request failed with status code 404"}
UploadErrors == {"Invalid image file"}
SecureUrls == {"u1", "u2"}

VARIABLES
  repo,           \* body the listing capability answers with
  triggers,       \* invocations the scheduler has still to make
  pc,             \* per run: where the handler stands
  listing,        \* per run: the axios.get promise and its value
  imageFiles,     \* per run: const imageFiles
  idx,            \* per run: position of the for loop in imageFiles
  uploadResults,  \* per run: const uploadResults
  calls,          \* per run: the uploadImageFromUrl calls made, in order
  response,       \* per run: the Response returned
  console,        \* per run: the lines written by console.log / console.error
  streams,        \* upload_stream calls received by the image host
  cloud,          \* artifacts held by the image host
  created,        \* every artifact the image host has stored, in order
  spc,            \* the local-directory script: where it stands
  sDir,           \* the local-directory script: what fs.readdir yields
  sUploads,       \* the local-directory script: the upload calls made
  sConsole,       \* the local-directory script: the lines written
  fIn,            \* the filter on its own: descriptor sequence given
  fOut            \* the filter on its own: result

vars ==
  << repo, triggers, pc, listing, imageFiles, idx, uploadResults, calls,
     response, console, streams, cloud, created, spc, sDir, sUploads,
     sConsole, fIn, fOut >>

runVars ==
  << repo, triggers, pc, listing, imageFiles, idx, uploadResults, calls,
     response, console, streams, cloud, created >>

scriptVars == << spc, sDir, sUploads, sConsole >>

NoResponse == [status |-> 0, body |-> [error |-> ""]]
NoListing == [state |-> "none", data |-> ObjectData, error |-> ""]
NoFilterResult == [done |-> FALSE, eligible |-> <<>>, ids |-> <<>>]
NoDir == [err |-> FALSE, files |-> <<>>]

\* the local-directory script is not run
ScriptOff ==
  /\ spc = "Off"
  /\ sDir = NoDir
  /\ sUploads = <<>>
  /\ sConsole = <<>>

\* the state before the scheduler has invoked anything
InitRuns(bodies, n) ==
  /\ repo \in bodies
  /\ triggers = n
  /\ pc = [r \in Runs |-> "Idle"]
  /\ listing = [r \in Runs |-> NoListing]
  /\ imageFiles = [r \in Runs |-> <<>>]
  /\ idx = [r \in Runs |-> 0]
  /\ uploadResults = [r \in Runs |-> <<>>]
  /\ calls = [r \in Runs |-> <<>>]
  /\ response = [r \in Runs |-> NoResponse]
  /\ console = [r \in Runs |-> <<>>]
  /\ streams = <<>>
  /\ cloud = {}
  /\ created = <<>>

Init ==
  /\ InitRuns({ArrayData(l) : l \in Listings} \cup {ObjectData}, 1)
  /\ ScriptOff
  /\ fIn = <<>>
  /\ fOut = NoFilterResult

(***************************************************************************)
(* uploadImageFromUrl: the promise of one call and the steps that settle   *)
(* it.  A call is "fetching" while the axios request for the source is     *)
(* pending, "piping" once the source stream is piped into the upload       *)
(* stream, "stalled" when the source stream broke while being piped, and   *)
(* "resolved" or "rejected" once the promise is settled.                   *)
(***************************************************************************)
\* the recipe the README documents for the upload_stream call
ReadmeRecipe ==
  [format |-> "webp",
   transformation |-> <<[width |-> 500, height |-> 400, crop |-> "fill"]>>]

\* the options given to cloudinary.v2.uploader.upload_stream
UploadOptions(publicId) == [folder |-> "github-images", public_id |-> publicId]

\* new Promise(...) with axios({url, method: 'GET', responseType: 'stream'})
NewCall(file, url, publicId) ==
  [file |-> file, url |-> url, publicId |-> publicId, state |-> "fetching",
   error |-> "", secure_url |-> ""]

\* the await goes on whatever the state of the promise
Settled_NoAwait(c) == TRUE

\* the promise of a call is settled
Settled(c) == c.state \in {"resolved", "rejected"}

\* call k of run r with the fields of upd changed
SetCall(r, k, upd) ==
  [calls EXCEPT ![r][k] =
     [f \in DOMAIN @ |-> IF f \in DOMAIN upd THEN upd[f] ELSE @[f]]]

\* the upload stream is opened before the source is requested, so that a
\* failed request leaves an opened stream behind
FetchReject_StreamOpened(r, k) ==
  /\ k \in DOMAIN calls[r]
  /\ calls[r][k].state = "fetching"
  /\ \E e \in FetchErrors :
       calls' = SetCall(r, k, [state |-> "rejected", error |-> e])
  /\ streams' = Append(streams, [run |-> r, call |-> k,
                                 options |-> UploadOptions(calls[r][k].publicId)])
  /\ UNCHANGED << repo, triggers, pc, listing, imageFiles, idx, uploadResults,
                  response, console, cloud, created, fIn, fOut, scriptVars >>

\* .catch(reject): the request for the source fails
FetchReject(r, k) ==
  /\ k \in DOMAIN calls[r]
  /\ calls[r][k].state = "fetching"
  /\ \E e \in FetchErrors :
       calls' = SetCall(r, k, [state |-> "rejected", error |-> e])
  /\ UNCHANGED << repo, triggers, pc, listing, imageFiles, idx, uploadResults,
                  response, console, streams, cloud, created,
                  fIn, fOut, scriptVars >>

\* .then(response => ...): the upload stream is opened and the source piped
FetchResolve(r, k) ==
  /\ k \in DOMAIN calls[r]
  /\ calls[r][k].state = "fetching"
  /\ calls' = SetCall(r, k, [state |-> "piping"])
  /\ streams' = Append(streams, [run |-> r, call |-> k,
                                 options |-> UploadOptions(calls[r][k].publicId)])
  /\ UNCHANGED << repo, triggers, pc, listing, imageFiles, idx, uploadResults,
                  response, console, cloud, created,
                  fIn, fOut, scriptVars >>

\* the source stream breaks while piped: pipe() neither ends the upload
\* stream nor reports the error, and the promise stays pending
SourceReadError(r, k) ==
  /\ k \in DOMAIN calls[r]
  /\ calls[r][k].state = "piping"
  /\ calls' = SetCall(r, k, [state |-> "stalled"])
  /\ UNCHANGED << repo, triggers, pc, listing, imageFiles, idx, uploadResults,
                  response, console, streams, cloud, created,
                  fIn, fOut, scriptVars >>

\* (error, result) => { if (error) reject(error) ... }
UploadError(r, k) ==
  /\ k \in DOMAIN calls[r]
  /\ calls[r][k].state \in {"piping", "stalled"}
  /\ \E e \in UploadErrors :
       calls' = SetCall(r, k, [state |-> "rejected", error |-> e])
  /\ UNCHANGED << repo, triggers, pc, listing, imageFiles, idx, uploadResults,
                  response, console, streams, cloud, created,
                  fIn, fOut, scriptVars >>

\* (error, result) => { ... else resolve(result) }: the host has stored the
\* artifact under folder/public_id, in place of an earlier one of that name
UploadSuccess(r, k) ==
  /\ k \in DOMAIN calls[r]
  /\ calls[r][k].state = "piping"
  /\ \E u \in SecureUrls :
       /\ calls' = SetCall(r, k, [state |-> "resolved", secure_url |-> u])
       /\ cloud' =
            { a \in cloud : a.public_id # calls[r][k].publicId }
              \cup { [folder |-> "github-images",
                      public_id |-> calls[r][k].publicId,
                      source |-> calls[r][k].url, secure_url |-> u] }
  /\ created' = Append(created, [run |-> r, call |-> k,
                                 public_id |-> calls[r][k].publicId])
  /\ UNCHANGED << repo, triggers, pc, listing, imageFiles, idx, uploadResults,
                  response, console, streams, fIn, fOut, scriptVars >>

(***************************************************************************)
(* The GET handler.  Its locations: "Listing" (awaiting axios.get),        *)
(* "Filtering", "Loop" (head of the for loop), "Awaiting" (awaiting        *)
(* uploadImageFromUrl), "Done" and "Failed" (a Response was returned).     *)
(***************************************************************************)
\* the failure Response returned with the status of the success Response
ErrorResponse_Status200(message) ==
  [status |-> 200, body |-> [error |-> message]]

\* the Response of the outer catch
ErrorResponse(message) == [status |-> 500, body |-> [error |-> message]]

\* the success Response returned with the status of the failure Response
OkResponse_Status500(uploaded) ==
  [status |-> 500, body |-> [message |-> "Upload complete", uploaded |-> uploaded]]

\* the Response at the end of the try block
OkResponse(uploaded) ==
  [status |-> 200, body |-> [message |-> "Upload complete", uploaded |-> uploaded]]

\* the entry pushed under the upload identifier instead of the file name
PushResult_PublicId(results, file, result) ==
  Append(results, [file |-> PublicId(file.name), url |-> result.secure_url])

\* uploadResults.push({ file: file.name, url: result.secure_url })
PushResult(results, file, result) ==
  Append(results, [file |-> file.name, url |-> result.secure_url])

\* a rejected upload leaves the loop
NextIteration_Abort(i, n, ok) == IF ok THEN i + 1 ELSE n + 1

\* a rejected upload is tried again
NextIteration_Retry(i, n, ok) == IF ok THEN i + 1 ELSE i

\* where the for loop over n files goes on after iteration i, which ended
\* in the try block (ok) or in its catch block
NextIteration(i, n, ok) == i + 1

\* the call the handler awaits: the last one it made
Current(r) == calls[r][Len(calls[r])]

\* the scheduler invokes GET: axios.get is issued
Invoke(r) ==
  /\ triggers > 0
  /\ pc[r] = "Idle"
  /\ \A q \in Runs : q < r => pc[q] # "Idle"
  /\ triggers' = triggers - 1
  /\ pc' = [pc EXCEPT ![r] = "Listing"]
  /\ listing' = [listing EXCEPT ![r].state = "pending"]
  /\ UNCHANGED << repo, imageFiles, idx, uploadResults, calls, response,
                  console, streams, cloud, created,
                  fIn, fOut, scriptVars >>

\* axios.get rejects (no answer, or a status outside 2xx): the outer catch
ListReject(r) ==
  /\ pc[r] = "Listing"
  /\ \E e \in ListErrors :
       /\ listing' = [listing EXCEPT ![r].state = "rejected", ![r].error = e]
       /\ response' = [response EXCEPT ![r] = ErrorResponse(e)]
  /\ pc' = [pc EXCEPT ![r] = "Failed"]
  /\ UNCHANGED << repo, triggers, imageFiles, idx, uploadResults, calls,
                  console, streams, cloud, created,
                  fIn, fOut, scriptVars >>

\* axios.get resolves: const files = githubResponse.data
ListResolve(r) ==
  /\ pc[r] = "Listing"
  /\ listing' = [listing EXCEPT ![r].state = "resolved", ![r].data = repo]
  /\ pc' = [pc EXCEPT ![r] = "Filtering"]
  /\ UNCHANGED << repo, triggers, imageFiles, idx, uploadResults, calls,
                  response, console, streams, cloud, created,
                  fIn, fOut, scriptVars >>

\* files.filter(...): a body that is no array has no filter method, and the
\* TypeError is caught by the outer catch
FilterStep(r) ==
  /\ pc[r] = "Filtering"
  /\ IF listing[r].data.isArray
     THEN /\ imageFiles' =
               [imageFiles EXCEPT ![r] = FilterImages(listing[r].data.items)]
          /\ idx' = [idx EXCEPT ![r] = 1]
          /\ pc' = [pc EXCEPT ![r] = "Loop"]
          /\ UNCHANGED response
     ELSE /\ response' =
               [response EXCEPT
                  ![r] = ErrorResponse("files.filter is not a function")]
          /\ pc' = [pc EXCEPT ![r] = "Failed"]
          /\ UNCHANGED << imageFiles, idx >>
  /\ UNCHANGED << repo, triggers, listing, uploadResults, calls, console,
                  streams, cloud, created,
                  fIn, fOut, scriptVars >>

\* a file whose identifier the image host already holds is passed over
StartUpload_SkipExisting(r) ==
  /\ pc[r] = "Loop"
  /\ idx[r] <= Len(imageFiles[r])
  /\ LET file == imageFiles[r][idx[r]]
     IN IF \E a \in cloud : a.public_id = PublicId(file.name)
        THEN /\ idx' = [idx EXCEPT ![r] = @ + 1]
             /\ UNCHANGED << calls, pc >>
        ELSE /\ calls' = [calls EXCEPT
                            ![r] = Append(@, NewCall(file, file.download_url,
                                                     PublicId(file.name)))]
             /\ pc' = [pc EXCEPT ![r] = "Awaiting"]
             /\ UNCHANGED idx
  /\ UNCHANGED << repo, triggers, listing, imageFiles, uploadResults,
                  response, console, streams, cloud, created, fIn, fOut,
                  scriptVars >>

\* one more file: rawUrl, publicId, and the call of uploadImageFromUrl
StartUpload(r) ==
  /\ pc[r] = "Loop"
  /\ idx[r] <= Len(imageFiles[r])
  /\ LET file == imageFiles[r][idx[r]]
     IN calls' = [calls EXCEPT
                    ![r] = Append(@, NewCall(file, file.download_url,
                                             PublicId(file.name)))]
  /\ pc' = [pc EXCEPT ![r] = "Awaiting"]
  /\ UNCHANGED << repo, triggers, listing, imageFiles, idx, uploadResults,
                  response, console, streams, cloud, created,
                  fIn, fOut, scriptVars >>

\* uploadResults declared at module level: one array for all the runs
AwaitResume_SharedResults(r) ==
  /\ pc[r] = "Awaiting"
  /\ Settled(Current(r))
  /\ LET c == Current(r)
         file == imageFiles[r][idx[r]]
         ok == c.state = "resolved"
     IN /\ IF ok
           THEN /\ uploadResults' =
                     [q \in Runs |-> PushResult(uploadResults[q], file, c)]
                /\ console' =
                     [console EXCEPT
                        ![r] = Append(@, [level |-> "log", file |-> file.name,
                                          text |-> c.secure_url])]
           ELSE /\ console' =
                     [console EXCEPT
                        ![r] = Append(@, [level |-> "error", file |-> file.name,
                                          text |-> c.error])]
                /\ UNCHANGED uploadResults
        /\ idx' = [idx EXCEPT
                     ![r] = NextIteration(@, Len(imageFiles[r]), ok)]
  /\ pc' = [pc EXCEPT ![r] = "Loop"]
  /\ UNCHANGED << repo, triggers, listing, imageFiles, calls, response,
                  streams, cloud, created, fIn, fOut, scriptVars >>

\* the catch block writes nothing
AwaitResume_SilentFailure(r) ==
  /\ pc[r] = "Awaiting"
  /\ Settled(Current(r))
  /\ LET c == Current(r)
         file == imageFiles[r][idx[r]]
         ok == c.state = "resolved"
     IN /\ IF ok
           THEN /\ uploadResults' =
                     [uploadResults EXCEPT ![r] = PushResult(@, file, c)]
                /\ console' =
                     [console EXCEPT
                        ![r] = Append(@, [level |-> "log", file |-> file.name,
                                          text |-> c.secure_url])]
           ELSE UNCHANGED << uploadResults, console >>
        /\ idx' = [idx EXCEPT
                     ![r] = NextIteration(@, Len(imageFiles[r]), ok)]
  /\ pc' = [pc EXCEPT ![r] = "Loop"]
  /\ UNCHANGED << repo, triggers, listing, imageFiles, calls, response,
                  streams, cloud, created, fIn, fOut, scriptVars >>

\* the await returns or throws: the rest of the try block, or the catch block
AwaitResume(r) ==
  /\ pc[r] = "Awaiting"
  /\ Settled(Current(r))
  /\ LET c == Current(r)
         file == imageFiles[r][idx[r]]
         ok == c.state = "resolved"
     IN /\ IF ok
           THEN /\ uploadResults' =
                     [uploadResults EXCEPT ![r] = PushResult(@, file, c)]
                /\ console' =
                     [console EXCEPT
                        ![r] = Append(@, [level |-> "log", file |-> file.name,
                                          text |-> c.secure_url])]
           ELSE /\ console' =
                     [console EXCEPT
                        ![r] = Append(@, [level |-> "error", file |-> file.name,
                                          text |-> c.error])]
                /\ UNCHANGED uploadResults
        /\ idx' = [idx EXCEPT
                     ![r] = NextIteration(@, Len(imageFiles[r]), ok)]
  /\ pc' = [pc EXCEPT ![r] = "Loop"]
  /\ UNCHANGED << repo, triggers, listing, imageFiles, calls, response,
                  streams, cloud, created,
                  fIn, fOut, scriptVars >>

\* the loop is over: the report is returned
Report(r) ==
  /\ pc[r] = "Loop"
  /\ idx[r] > Len(imageFiles[r])
  /\ response' = [response EXCEPT ![r] = OkResponse(uploadResults[r])]
  /\ pc' = [pc EXCEPT ![r] = "Done"]
  /\ UNCHANGED << repo, triggers, listing, imageFiles, idx, uploadResults,
                  calls, console, streams, cloud, created,
                  fIn, fOut, scriptVars >>

\* the positions a call of a run can have
CallIds == 1..(MaxFiles + 2)

Next ==
  \E r \in Runs :
    \/ Invoke(r)
    \/ ListReject(r)
    \/ ListResolve(r)
    \/ FilterStep(r)
    \/ StartUpload(r)
    \/ AwaitResume(r)
    \/ Report(r)
    \/ \E k \in CallIds :
         \/ FetchReject(r, k)
         \/ FetchResolve(r, k)
         \/ SourceReadError(r, k)
         \/ UploadError(r, k)
         \/ UploadSuccess(r, k)

Spec == Init /\ [][Next]_vars

\* the scheduler invokes GET twice, the second time at any moment after the
\* first: nothing keeps two runs from overlapping
OverlapListings ==
  { l \in SeqsUpTo({ d \in Descriptors :
                       d.type = "file" /\ d.name # <<"a", ".", "p", "n", "g">> },
                   MaxOverlapFiles) :
      \A i, j \in 1..Len(l) : l[i].name = l[j].name => i = j }

InitOverlap ==
  /\ InitRuns({ ArrayData(l) : l \in OverlapListings }, 2)
  /\ ScriptOff
  /\ fIn = <<>>
  /\ fOut = NoFilterResult

SpecOverlap == InitOverlap /\ [][Next]_vars

(***************************************************************************)
(* Progress.  The event loop runs every continuation of the handler that   *)
(* is ready; a request sent with axios is answered or fails; the image     *)
(* host answers an upload stream that is being piped to its end.  Nothing  *)
(* in the code makes the host answer a stream whose source broke.          *)
(***************************************************************************)
HandlerStep(r) ==
  FilterStep(r) \/ StartUpload(r) \/ AwaitResume(r) \/ Report(r)

ListSettle(r) == ListReject(r) \/ ListResolve(r)

FetchSettle(r, k) == FetchReject(r, k) \/ FetchResolve(r, k)

HostAnswer(r, k) ==
  /\ k \in DOMAIN calls[r]
  /\ calls[r][k].state = "piping"
  /\ (UploadError(r, k) \/ UploadSuccess(r, k))

Progress ==
  \A r \in Runs :
    /\ WF_vars(HandlerStep(r))
    /\ WF_vars(ListSettle(r))
    /\ \A k \in CallIds :
         /\ WF_vars(FetchSettle(r, k))
         /\ WF_vars(HostAnswer(r, k))

SpecFair == Init /\ [][Next]_vars /\ Progress

\* the host, besides, reports an error on every stream whose source broke,
\* so that every upload call settles
SpecSettling ==
  /\ Init /\ [][Next]_vars /\ Progress
  /\ \A r \in Runs : \A k \in CallIds : WF_vars(UploadError(r, k))

(***************************************************************************)
(* The filter and the identifier derivation on their own: any descriptor   *)
(* sequence is given to them, names the folder of a run never holds        *)
(* included.                                                               *)
(***************************************************************************)
FilterStems == { <<>>, <<"a">>, <<"a", ".", "b">> }

FilterSuffixes ==
  { <<".", "j", "p", "g">>, <<".", "j", "p", "e", "g">>, <<".", "J", "P", "G">>,
    <<".", "P", "n", "g">>, <<".", "g", "i", "f">>, <<".", "w", "e", "b", "p">>,
    <<".", "m", "d">>, <<"j", "p", "g">>, <<".", "j", "p", "e">>,
    <<".", "p", "n", "g", "x">>, <<".", "p", "n", "g", ".">> }

FilterDescriptors ==
  { GitHubFile(st \o su, "file") : st \in FilterStems, su \in FilterSuffixes }
    \cup { GitHubFile(<<"a">> \o su, "dir") :
             su \in { <<".", "p", "n", "g">>, <<".", "m", "d">> } }

InitFilter ==
  /\ InitRuns({ObjectData}, 0)
  /\ ScriptOff
  /\ fIn \in SeqsUpTo(FilterDescriptors, MaxFilterInput)
  /\ fOut = NoFilterResult

\* files.filter(...) and, for each file kept, file.name.replace(...)
FilterAndDerive ==
  /\ ~fOut.done
  /\ LET kept == FilterImages(fIn)
     IN fOut' = [done |-> TRUE, eligible |-> kept,
                 ids |-> [k \in 1..Len(kept) |-> PublicId(kept[k].name)]]
  /\ UNCHANGED << runVars, fIn, scriptVars >>

NextFilter == FilterAndDerive

SpecFilter == InitFilter /\ [][NextFilter]_vars

(***************************************************************************)
(* The local-directory script (src/index.js).  Its locations: "Reading"    *)
(* (fs.readdir was called, its callback has not run) and "Listed" (the     *)
(* callback has run).  An entry of the directory is its name and what      *)
(* lstat finds under it; the directory does not change while the script    *)
(* runs.                                                                   *)
(***************************************************************************)
MaxDirEntries == 3

DirEntry(name, kind) == [name |-> name, kind |-> kind]

DirEntries ==
  { DirEntry(<<"a", ".", "j", "p", "g">>, "file"),
    DirEntry(<<"r", ".", "m", "d">>, "file"),
    DirEntry(<<"d", ".", "g", "i", "f">>, "dir"),
    DirEntry(<<"l">>, "link") }

\* a directory holds no two entries of one name
DirListings ==
  { l \in SeqsUpTo(DirEntries, MaxDirEntries) :
      \A i, j \in DOMAIN l : i # j => l[i].name # l[j].name }

\* what the callback of fs.readdir is called with
DirResults ==
  { [err |-> TRUE, files |-> <<>>] }
    \cup { [err |-> FALSE, files |-> l] : l \in DirListings }

\* every entry is taken for a regular file
IsRegularFile_Any(entry) == TRUE

\* fs.lstatSync(filePath).isFile()
IsRegularFile(entry) == entry.kind = "file"

ScriptUploadOptions == [folder |-> "github-images"]

\* cloudinary.uploader.upload(filePath, {...}): a pending promise
NewScriptUpload(entry) ==
  [file |-> entry.name, options |-> ScriptUploadOptions, state |-> "pending",
   text |-> ""]

\* files.forEach(...): one upload per entry that passes the lstat test
StartedUploads(files) ==
  LET kept == SelectSeq(files, IsRegularFile)
  IN [k \in 1..Len(kept) |-> NewScriptUpload(kept[k])]

InitScript ==
  /\ InitRuns({ObjectData}, 0)
  /\ spc = "Reading"
  /\ sDir \in DirResults
  /\ sUploads = <<>>
  /\ sConsole = <<>>
  /\ fIn = <<>>
  /\ fOut = NoFilterResult

\* the callback given to fs.readdir, from its first line to its last
ReaddirCallback ==
  /\ spc = "Reading"
  /\ spc' = "Listed"
  /\ IF sDir.err
       THEN /\ sConsole' = Append(sConsole,
                                  [level |-> "error", file |-> <<>>,
                                   text |-> "Failed to list directory:"])
            /\ sUploads' = sUploads
       ELSE /\ sUploads' = StartedUploads(sDir.files)
            /\ sConsole' = sConsole
  /\ UNCHANGED << runVars, sDir, fIn, fOut >>

\* .then(result => console.log(...)) of upload k
ScriptUploadResolve(k) ==
  /\ spc = "Listed"
  /\ k \in DOMAIN sUploads
  /\ sUploads[k].state = "pending"
  /\ \E u \in SecureUrls :
       /\ sUploads' = [sUploads EXCEPT ![k].state = "resolved", ![k].text = u]
       /\ sConsole' = Append(sConsole,
                             [level |-> "log", file |-> sUploads[k].file,
                              text |-> u])
  /\ UNCHANGED << runVars, spc, sDir, fIn, fOut >>

\* .catch(error => console.error(...)) of upload k
ScriptUploadReject(k) ==
  /\ spc = "Listed"
  /\ k \in DOMAIN sUploads
  /\ sUploads[k].state = "pending"
  /\ \E e \in UploadErrors :
       /\ sUploads' = [sUploads EXCEPT ![k].state = "rejected", ![k].text = e]
       /\ sConsole' = Append(sConsole,
                             [level |-> "error", file |-> sUploads[k].file,
                              text |-> e])
  /\ UNCHANGED << runVars, spc, sDir, fIn, fOut >>

NextScript ==
  \/ ReaddirCallback
  \/ \E k \in 1..MaxDirEntries : ScriptUploadResolve(k)
  \/ \E k \in 1..MaxDirEntries : ScriptUploadReject(k)

SpecScript == InitScript /\ [][NextScript]_vars

(***************************************************************************)
(* What the properties are stated with.                                    *)
(***************************************************************************)
\* the allow-list of extensions, in lower case
AllowList ==
  { <<"j", "p", "g">>, <<"j", "p", "e", "g">>, <<"p", "n", "g">>,
    <<"g", "i", "f">>, <<"w", "e", "b", "p">> }

LowerCase(c) ==
  IF \E l \in DOMAIN UpperOf : UpperOf[l] = c
  THEN CHOOSE l \in DOMAIN UpperOf : UpperOf[l] = c
  ELSE c

\* the part of name after its last n characters are cut off, and those
Front(name, n) == SubSeq(name, 1, Len(name) - n)
Back(name, n) == SubSeq(name, Len(name) - n + 1, Len(name))

\* name is something, a dot, and an extension of the allow-list in any case
HasAllowedExtension(name) ==
  \E ext \in AllowList :
    /\ Len(name) > Len(ext)
    /\ name[Len(name) - Len(ext)] = "."
    /\ [k \in 1..Len(ext) |-> LowerCase(Back(name, Len(ext))[k])] = ext

Eligible(d) == d.type = "file" /\ HasAllowedExtension(d.name)

IsResolved(c) == c.state = "resolved"
IsRejected(c) == c.state = "rejected"
InFlight(c) == c.state \in {"fetching", "piping", "stalled"}

\* the entries the successful calls of run r stand for, in call order
SuccessEntries(r) ==
  LET won == SelectSeq(calls[r], IsResolved)
  IN [k \in 1..Len(won) |-> [file |-> won[k].file.name, url |-> won[k].secure_url]]

\* name without its last dot and what follows it
StripFinalSegment(name) ==
  LET dots == { i \in 1..Len(name) : name[i] = "." }
      last == CHOOSE i \in dots : \A j \in dots : j <= i
  IN IF dots = {} THEN name ELSE SubSeq(name, 1, last - 1)

DotCount(name) == Cardinality({ i \in 1..Len(name) : name[i] = "." })

(***************************************************************************)
(* C1: when the listing request fails, the run returns a status-500        *)
(* response whose body is {error: <the message of the failure>} and has    *)
(* made no upload call.                                                    *)
(***************************************************************************)
C1_ListingFailureAborts ==
  \A r \in Runs :
    listing[r].state = "rejected" =>
      /\ pc[r] = "Failed"
      /\ response[r] = [status |-> 500, body |-> [error |-> listing[r].error]]
      /\ calls[r] = <<>>
      /\ \A i \in DOMAIN streams : streams[i].run # r

\* the listing failed although the folder holds images to upload
C1_Witness ==
  \E r \in Runs :
    /\ listing[r].state = "rejected"
    /\ pc[r] = "Failed"
    /\ repo.isArray
    /\ SelectSeq(repo.items, Eligible) # <<>>

(***************************************************************************)
(* C2: a failed upload does not end the loop: when the run is done, every  *)
(* eligible file has had its attempt, the report lists as many files as    *)
(* there are eligible files less the failed attempts, and it lists the     *)
(* files of the successful attempts in the order of the filtered input.    *)
(***************************************************************************)
C2_FailureDoesNotAbort ==
  \A r \in Runs :
    pc[r] = "Done" =>
      LET n == Len(imageFiles[r])
          failures == { k \in DOMAIN calls[r] : IsRejected(calls[r][k]) }
          won == SelectSeq(calls[r], IsResolved)
      IN /\ Len(calls[r]) = n
         /\ \A k \in 1..n : /\ calls[r][k].file = imageFiles[r][k]
                            /\ ~InFlight(calls[r][k])
         /\ Len(response[r].body.uploaded) = n - Cardinality(failures)
         /\ [k \in 1..Len(response[r].body.uploaded) |->
               response[r].body.uploaded[k].file]
              = [k \in 1..Len(won) |-> won[k].file.name]

\* a run is done in which an attempt failed and the next one succeeded
C2_Witness ==
  \E r \in Runs :
    /\ pc[r] = "Done"
    /\ \E k \in DOMAIN calls[r] :
         /\ k + 1 \in DOMAIN calls[r]
         /\ IsRejected(calls[r][k])
         /\ IsResolved(calls[r][k + 1])

(***************************************************************************)
(* C3, as claimed: a run whose listing succeeded never ends Failed and     *)
(* never returns status 500, whatever the listing response holds.          *)
(***************************************************************************)
C3_FailedOnlyFromListing ==
  \A r \in Runs :
    listing[r].state = "resolved" =>
      pc[r] # "Failed" /\ response[r].status # 500

(***************************************************************************)
(* C3, amended: a run ends Failed with status 500 only when the listing    *)
(* failed or the body of the listing response is no array; once the        *)
(* listing has succeeded with an array, the run is in Filtering or         *)
(* Uploading with no response yet, or Done with a status-200 response,     *)
(* whatever the uploads do.                                                *)
(***************************************************************************)
C3_FailedOnlyWithoutFileList ==
  \A r \in Runs :
    /\ (pc[r] = "Failed" \/ response[r].status = 500) =>
         \/ listing[r].state = "rejected"
         \/ listing[r].state = "resolved" /\ ~listing[r].data.isArray
    /\ (listing[r].state = "resolved" /\ listing[r].data.isArray) =>
         \/ pc[r] \in {"Filtering", "Loop", "Awaiting"} /\ response[r].status = 0
         \/ pc[r] = "Done" /\ response[r].status = 200

\* a run is done with status 200 although an upload failed
C3_Witness ==
  \E r \in Runs :
    /\ listing[r].state = "resolved"
    /\ listing[r].data.isArray
    /\ pc[r] = "Done"
    /\ response[r].status = 200
    /\ \E k \in DOMAIN calls[r] : IsRejected(calls[r][k])

(***************************************************************************)
(* C4: for every descriptor sequence the filter returns exactly the        *)
(* descriptors of type file whose name ends in a dot and one of jpg, jpeg, *)
(* png, gif, webp in any case, in their original order.                    *)
(***************************************************************************)
C4_FilterKeepsExactlyImages ==
  fOut.done => fOut.eligible = SelectSeq(fIn, Eligible)

\* the filter dropped the first of two descriptors and kept the second,
\* whose extension is written in upper case
C4_Witness ==
  /\ fOut.done
  /\ Len(fIn) = 2
  /\ Len(fOut.eligible) = 1
  /\ fOut.eligible[1] = fIn[2]
  /\ fIn[2].name = <<"a", ".", "b", ".", "J", "P", "G">>
  /\ fIn[1].type = "dir"

(***************************************************************************)
(* C5: every upload call of a run is made for an entry of the listing      *)
(* that is of type file and has an allowed image extension; no other       *)
(* entry reaches uploadImageFromUrl or the image host.                     *)
(***************************************************************************)
C5_OnlyEligibleUploaded ==
  /\ \A r \in Runs : \A k \in DOMAIN calls[r] :
       /\ Eligible(calls[r][k].file)
       /\ \E i \in DOMAIN listing[r].data.items :
            listing[r].data.items[i] = calls[r][k].file
       /\ calls[r][k].url = calls[r][k].file.download_url
  /\ \A i \in DOMAIN streams :
       /\ streams[i].call \in DOMAIN calls[streams[i].run]
       /\ Eligible(calls[streams[i].run][streams[i].call].file)

\* a run is done that uploaded something from a folder which also holds
\* a file that is no image and a directory
C5_Witness ==
  \E r \in Runs :
    /\ pc[r] = "Done"
    /\ calls[r] # <<>>
    /\ streams # <<>>
    /\ \E i, j \in DOMAIN listing[r].data.items :
         /\ listing[r].data.items[i].type = "dir"
         /\ listing[r].data.items[j].type = "file"
         /\ ~HasAllowedExtension(listing[r].data.items[j].name)

(***************************************************************************)
(* C6: a status-200 response means that the listing succeeded and that     *)
(* the upload calls made are, one for one and in order, the eligible       *)
(* entries of the listing, each call settled.                              *)
(***************************************************************************)
C6_OkMeansEachAttemptedOnce ==
  \A r \in Runs :
    response[r].status = 200 =>
      /\ listing[r].state = "resolved"
      /\ listing[r].data.isArray
      /\ LET wanted == SelectSeq(listing[r].data.items, Eligible)
         IN /\ Len(calls[r]) = Len(wanted)
            /\ \A k \in 1..Len(wanted) :
                 /\ calls[r][k].file = wanted[k]
                 /\ ~InFlight(calls[r][k])

\* status 200 after two attempts or more, one of them failed
C6_Witness ==
  \E r \in Runs :
    /\ response[r].status = 200
    /\ Len(calls[r]) >= 2
    /\ \E k \in DOMAIN calls[r] : IsRejected(calls[r][k])

(***************************************************************************)
(* C7: every upload_stream call the image host receives carries the        *)
(* recipe: format webp and the transformation width 500, height 400,       *)
(* crop fill.                                                              *)
(***************************************************************************)
C7_RecipeOnEveryUpload ==
  \A i \in DOMAIN streams :
    \A f \in DOMAIN ReadmeRecipe :
      /\ f \in DOMAIN streams[i].options
      /\ streams[i].options[f] = ReadmeRecipe[f]

(***************************************************************************)
(* C8: the uploaded sequence of a status-200 report holds, in call order,  *)
(* one entry {file, url} for each upload that succeeded, the name of the   *)
(* file with the URL its own upload returned, and nothing for an upload    *)
(* that failed; the message is 'Upload complete'; when every upload        *)
(* succeeded there is one entry for each eligible file, in filtered order. *)
(***************************************************************************)
C8_ReportListsSuccesses ==
  \A r \in Runs :
    response[r].status = 200 =>
      /\ response[r].body.message = "Upload complete"
      /\ response[r].body.uploaded = SuccessEntries(r)
      /\ (\A k \in DOMAIN calls[r] : IsResolved(calls[r][k])) =>
           LET wanted == SelectSeq(listing[r].data.items, Eligible)
           IN /\ Len(response[r].body.uploaded) = Len(wanted)
              /\ \A k \in 1..Len(wanted) :
                   response[r].body.uploaded[k].file = wanted[k].name

\* a report of two entries with different URLs, given after three attempts
\* of which the second failed
C8_Witness ==
  \E r \in Runs :
    /\ response[r].status = 200
    /\ Len(calls[r]) = 3
    /\ IsRejected(calls[r][2])
    /\ Len(response[r].body.uploaded) = 2
    /\ response[r].body.uploaded[1].url # response[r].body.uploaded[2].url

(***************************************************************************)
(* C9: the upload identifier of a file is its name without the last dot    *)
(* and what follows it; earlier dots and segments stay.                    *)
(***************************************************************************)
C9_IdentifierStripsFinalSegment ==
  fOut.done =>
    /\ Len(fOut.ids) = Len(fOut.eligible)
    /\ \A k \in 1..Len(fOut.ids) :
         fOut.ids[k] = StripFinalSegment(fOut.eligible[k].name)

\* a name of two dots gave an identifier that keeps the first
C9_Witness ==
  /\ fOut.done
  /\ \E k \in 1..Len(fOut.ids) :
       /\ fOut.eligible[k].name = <<"a", ".", "b", ".", "P", "n", "g">>
       /\ fOut.ids[k] = <<"a", ".", "b">>

(***************************************************************************)
(* C10: the uploads of a run are sequential: at most one call is in        *)
(* flight, and every call but the last one made is settled.                *)
(***************************************************************************)
C10_UploadsSequential ==
  \A r \in Runs :
    /\ Cardinality({ k \in DOMAIN calls[r] : InFlight(calls[r][k]) }) <= 1
    /\ \A k \in DOMAIN calls[r] :
         k < Len(calls[r]) => IsResolved(calls[r][k]) \/ IsRejected(calls[r][k])
    /\ Len(calls[r]) > 0 /\ InFlight(calls[r][Len(calls[r])]) =>
         pc[r] = "Awaiting"

\* the third upload is in flight, the first two are settled
C10_Witness ==
  \E r \in Runs :
    /\ Len(calls[r]) = 3
    /\ calls[r][3].state = "piping"
    /\ IsRejected(calls[r][1])
    /\ IsResolved(calls[r][2])

(***************************************************************************)
(* C11: an upload call whose source stream cannot be opened, whose source  *)
(* stream cannot be read after it was opened, or whose stream the image    *)
(* host rejects, ends with its promise rejected; it does not stay pending  *)
(* for ever.  The first and the third case reject the promise in the step  *)
(* in which they happen; the second leaves the call "stalled".             *)
(***************************************************************************)
C11_FailedCallRejects ==
  \A r \in Runs : \A k \in CallIds :
    (k \in DOMAIN calls[r] /\ calls[r][k].state = "stalled")
      ~> (k \in DOMAIN calls[r] /\ calls[r][k].state = "rejected")

\* the upload streams opened for, and the artifacts stored by, call k of run r
StreamsOf(r, k) ==
  { i \in DOMAIN streams : streams[i].run = r /\ streams[i].call = k }
CreatedBy(r, k) ==
  { i \in DOMAIN created : created[i].run = r /\ created[i].call = k }

(***************************************************************************)
(* C12, as claimed: a call that failed has opened no upload stream and     *)
(* created no artifact.                                                    *)
(***************************************************************************)
C12_FailedCallOpensNoStream ==
  \A r \in Runs : \A k \in DOMAIN calls[r] :
    IsRejected(calls[r][k]) => StreamsOf(r, k) = {} /\ CreatedBy(r, k) = {}

(***************************************************************************)
(* C12, amended: a call opens at most one upload stream and creates at     *)
(* most one artifact, and creates one only when it resolves; a call whose  *)
(* source request failed has opened no upload stream; a call that failed   *)
(* after its stream was opened has created no artifact; and a settled      *)
(* promise never changes again.                                            *)
(***************************************************************************)
C12_AtMostOneArtifactPerCall ==
  /\ [](\A r \in Runs : \A k \in DOMAIN calls[r] :
          /\ Cardinality(StreamsOf(r, k)) <= 1
          /\ Cardinality(CreatedBy(r, k)) <= 1
          /\ CreatedBy(r, k) # {} <=> IsResolved(calls[r][k])
          /\ CreatedBy(r, k) # {} => StreamsOf(r, k) # {}
          /\ calls[r][k].state = "fetching" => StreamsOf(r, k) = {}
          /\ (IsRejected(calls[r][k]) /\ calls[r][k].error \in FetchErrors) =>
               StreamsOf(r, k) = {})
  /\ [][\A r \in Runs : \A k \in DOMAIN calls[r] :
          (IsResolved(calls[r][k]) \/ IsRejected(calls[r][k])) =>
            calls'[r][k] = calls[r][k]]_vars

\* one call failed at the source request, one failed at the host, one
\* resolved
C12_Witness ==
  \E r \in Runs :
    /\ Len(calls[r]) = 3
    /\ IsRejected(calls[r][1]) /\ calls[r][1].error \in FetchErrors
    /\ IsRejected(calls[r][2]) /\ calls[r][2].error \in UploadErrors
    /\ IsResolved(calls[r][3])

\* everything run r holds
LocalsOf(r) ==
  << pc[r], listing[r], imageFiles[r], idx[r], uploadResults[r], calls[r],
     response[r], console[r] >>

(***************************************************************************)
(* C13: when two runs overlap, no step changes what both runs hold, and    *)
(* the report of each run lists exactly the successful uploads of that     *)
(* run's own calls: as many entries as calls of its own resolved, each     *)
(* with the URL its own call was given.                                    *)
(***************************************************************************)
C13_RunsIndependent ==
  /\ [](\A r \in Runs :
          response[r].status = 200 =>
            /\ response[r].body.uploaded = uploadResults[r]
            /\ uploadResults[r] = SuccessEntries(r)
            /\ Len(uploadResults[r])
                 = Cardinality({ k \in DOMAIN calls[r] : IsResolved(calls[r][k]) }))
  /\ [][\A r, q \in Runs :
          (r # q /\ LocalsOf(r)' # LocalsOf(r)) => LocalsOf(q)' = LocalsOf(q)]_vars

\* two runs overlapped, their uploads reached the host in turn, and their
\* reports differ
C13_Witness ==
  /\ \A r \in Runs : pc[r] = "Done" /\ response[r].status = 200
  /\ Len(created) >= 3
  /\ created[1].run = 1 /\ created[2].run = 2 /\ created[3].run = 1
  /\ response[1].body.uploaded # response[2].body.uploaded
  /\ Len(response[2].body.uploaded) = 1

\* the identifiers a run over the folder uploads to when nothing fails
IdsOfFolder ==
  LET wanted == SelectSeq(repo.items, Eligible)
  IN { StripFinalSegment(wanted[k].name) : k \in 1..Len(wanted) }

AllSucceeded(r) ==
  pc[r] = "Done" /\ \A k \in DOMAIN calls[r] : IsResolved(calls[r][k])

(***************************************************************************)
(* C14: when the runs made so far are over and every upload of theirs      *)
(* succeeded, each run has called the upload for every eligible file,      *)
(* whether the host held it already or not, and the host holds one         *)
(* artifact for each identifier of the folder: the same set after the      *)
(* second run as after the first.                                          *)
(***************************************************************************)
C14_IdempotentByOverwrite ==
  ( /\ \A r \in Runs : pc[r] = "Idle" \/ AllSucceeded(r)
    /\ \E r \in Runs : pc[r] = "Done" ) =>
      LET wanted == SelectSeq(repo.items, Eligible)
          done == { r \in Runs : pc[r] = "Done" }
      IN /\ \A r \in done :
              [k \in 1..Len(calls[r]) |-> calls[r][k].file] = wanted
         /\ Len(created) = Cardinality(done) * Len(wanted)
         /\ { a.public_id : a \in cloud } = IdsOfFolder
         /\ Cardinality(cloud) = Cardinality(IdsOfFolder)

\* the second run uploaded its two files after the first had uploaded the
\* same two, and the host holds two artifacts
C14_Witness ==
  /\ \A r \in Runs : AllSucceeded(r)
  /\ Len(created) = 4
  /\ created[1].run = 1 /\ created[2].run = 1
  /\ created[3].run = 2 /\ created[4].run = 2
  /\ Cardinality(cloud) = 2

(***************************************************************************)
(* C15: when the listing call settles and every upload call settles, a     *)
(* run that was started returns a response in the end; a run is over       *)
(* exactly when it has returned a response, of status 200 or 500.          *)
(***************************************************************************)
C15_RunReturns ==
  /\ \A r \in Runs : (pc[r] = "Listing") ~> (pc[r] \in {"Done", "Failed"})
  /\ [](\A r \in Runs :
          /\ response[r].status \in {0, 200, 500}
          /\ pc[r] = "Done" <=> response[r].status = 200
          /\ pc[r] = "Failed" <=> response[r].status = 500)

\* a run returned after an upload had failed at the source, one at the
\* host, and one had succeeded
C15_Witness ==
  \E r \in Runs :
    /\ pc[r] = "Done"
    /\ response[r].status = 200
    /\ Len(calls[r]) = 3
    /\ calls[r][1].error \in FetchErrors
    /\ calls[r][2].error \in UploadErrors
    /\ IsResolved(calls[r][3])

IsLogLine(l) == l.level = "log"

(***************************************************************************)
(* C16: every upload attempt that is over has written one line, before     *)
(* the next attempt starts: line k is about the file of attempt k, a       *)
(* success line with the URL when the attempt resolved, a failure line     *)
(* with the file name and the message when it was rejected; the success    *)
(* lines are the entries of the results; and a run that is done has        *)
(* written one line for each eligible file, in filtered order.             *)
(***************************************************************************)
C16_OneLogLinePerAttempt ==
  \A r \in Runs :
    /\ Len(console[r])
         = Len(calls[r]) - (IF pc[r] = "Awaiting" THEN 1 ELSE 0)
    /\ \A k \in DOMAIN console[r] :
         /\ console[r][k].file = calls[r][k].file.name
         /\ console[r][k].level = "log" <=> IsResolved(calls[r][k])
         /\ console[r][k].level = "error" <=> IsRejected(calls[r][k])
         /\ console[r][k].text
              = (IF IsResolved(calls[r][k]) THEN calls[r][k].secure_url
                 ELSE calls[r][k].error)
    /\ LET lines == SelectSeq(console[r], IsLogLine)
       IN uploadResults[r]
            = [k \in 1..Len(lines) |-> [file |-> lines[k].file, url |-> lines[k].text]]
    /\ pc[r] = "Done" =>
         [k \in 1..Len(console[r]) |-> console[r][k].file]
           = [k \in 1..Len(imageFiles[r]) |-> imageFiles[r][k].name]

\* the third attempt is under way; the first two have written their lines,
\* a failure line and a success line
C16_Witness ==
  \E r \in Runs :
    /\ pc[r] = "Awaiting"
    /\ Len(calls[r]) = 3
    /\ Len(console[r]) = 2
    /\ console[r][1].level = "error"
    /\ console[r][2].level = "log"

\* the calls of run r that resolved under the identifier of call k
ResolvedAs(r, k) ==
  { m \in DOMAIN calls[r] :
      IsResolved(calls[r][m]) /\ calls[r][m].publicId = calls[r][k].publicId }

Greatest(S) == CHOOSE s \in S : \A t \in S : t <= s

(***************************************************************************)
(* C17: two eligible files of one listing whose names differ in the        *)
(* extension only are uploaded under one identifier; the host then holds   *)
(* a single artifact of that identifier, the one of the later upload;      *)
(* and the report lists both files.                                        *)
(***************************************************************************)
C17_SameStemCollides ==
  \A r \in Runs : \A i, j \in DOMAIN calls[r] :
    ( /\ i < j
      /\ StripFinalSegment(calls[r][i].file.name)
           = StripFinalSegment(calls[r][j].file.name) ) =>
      /\ calls[r][i].file.name # calls[r][j].file.name
      /\ calls[r][i].publicId = calls[r][j].publicId
      /\ \A si \in StreamsOf(r, i) : \A sj \in StreamsOf(r, j) :
           streams[si].options.public_id = streams[sj].options.public_id
      /\ ResolvedAs(r, j) # {} =>
           /\ Cardinality({ a \in cloud : a.public_id = calls[r][j].publicId }) = 1
           /\ \A a \in cloud :
                a.public_id = calls[r][j].publicId =>
                  a.source = calls[r][Greatest(ResolvedAs(r, j))].url
      /\ (pc[r] = "Done" /\ IsResolved(calls[r][i]) /\ IsResolved(calls[r][j])) =>
           \E m, n \in DOMAIN response[r].body.uploaded :
             /\ m < n
             /\ response[r].body.uploaded[m].file = calls[r][i].file.name
             /\ response[r].body.uploaded[n].file = calls[r][j].file.name

\* a.jpg and then a.png were uploaded: the host holds a.png under "a", and
\* the report lists two files
C17_Witness ==
  \E r \in Runs :
    /\ pc[r] = "Done"
    /\ Len(calls[r]) = 2
    /\ calls[r][1].file.name = <<"a", ".", "j", "p", "g">>
    /\ calls[r][2].file.name = <<"a", ".", "p", "n", "g">>
    /\ IsResolved(calls[r][1]) /\ IsResolved(calls[r][2])
    /\ Len(created) = 2
    /\ \E a \in cloud :
         a.public_id = <<"a">> /\ a.source = <<"/", "a", ".", "p", "n", "g">>
    /\ Len(response[r].body.uploaded) = 2

\* lstat finds a regular file under the entry
KindIsFile(entry) == entry.kind = "file"

\* after the callback: nothing was uploaded on a listing error; otherwise
\* the uploads are those of the regular files, in order, whatever their
\* names, and every upload still pending can resolve and can reject
C18_ScriptState ==
  /\ spc = "Reading" => sUploads = <<>>
  /\ (spc = "Listed" /\ sDir.err) =>
       /\ sUploads = <<>>
       /\ Len(sConsole) = 1 /\ sConsole[1].level = "error"
  /\ (spc = "Listed" /\ ~sDir.err) =>
       LET regular == SelectSeq(sDir.files, KindIsFile)
       IN /\ Len(sUploads) = Len(regular)
          /\ \A k \in DOMAIN sUploads :
               /\ sUploads[k].file = regular[k].name
               /\ sUploads[k].options = [folder |-> "github-images"]
               /\ sUploads[k].state \in {"pending", "resolved", "rejected"}
               /\ sUploads[k].state = "pending" =>
                    /\ ENABLED ScriptUploadResolve(k)
                    /\ ENABLED ScriptUploadReject(k)

\* the callback leaves every upload pending; a later step settles one
\* upload and leaves every other upload as it was
C18_ScriptStep ==
  /\ (spc = "Reading" /\ spc' = "Listed") =>
       \A k \in DOMAIN sUploads' : sUploads'[k].state = "pending"
  /\ spc = "Listed" =>
       /\ DOMAIN sUploads' = DOMAIN sUploads
       /\ Cardinality({ k \in DOMAIN sUploads : sUploads'[k] # sUploads[k] }) <= 1
       /\ \A k \in DOMAIN sUploads :
            /\ sUploads'[k].file = sUploads[k].file
            /\ sUploads[k].state # "pending" => sUploads'[k] = sUploads[k]

(***************************************************************************)
(* C18: in the local-directory script a listing error leads to no upload;  *)
(* otherwise one upload is started for each entry that is a regular file   *)
(* (subfolders are skipped, the name plays no part), all of them before    *)
(* any of them settles, and an upload that fails neither prevents nor      *)
(* cancels another.                                                        *)
(***************************************************************************)
C18_ScriptUploadsIndependent == []C18_ScriptState /\ [][C18_ScriptStep]_vars

\* of three entries the subfolder was skipped; the upload of a.jpg failed,
\* and the upload of r.md succeeded after that
C18_Witness ==
  /\ spc = "Listed"
  /\ ~sDir.err
  /\ Len(sDir.files) = 3
  /\ \E k \in DOMAIN sDir.files : sDir.files[k].kind = "dir"
  /\ Len(sUploads) = 2
  /\ sUploads[1].file = <<"a", ".", "j", "p", "g">>
  /\ sUploads[1].state = "rejected"
  /\ sUploads[2].file = <<"r", ".", "m", "d">>
  /\ sUploads[2].state = "resolved"
  /\ Len(sConsole) = 2
  /\ sConsole[1].level = "error" /\ sConsole[2].level = "log"

=============================================================================
